---------------------------- MODULE Spec2Model ----------------------------
(***************************************************************************)
(* Model of geourl (src/geourl.py): the tokenizer, the pattern catalog,    *)
(* the matcher, the coordinate builder with its confidence score, the      *)
(* result selector, find() and the command line loop of main().            *)
(*                                                                         *)
(* A text is a sequence of one-character strings.  A decimal.Decimal is a  *)
(* record [sign, int, exp]: sign is 0 or 1, int the coefficient as a       *)
(* sequence of digits without leading zeros, exp the exponent, exactly the *)
(* triple of Decimal.as_tuple().  Arithmetic is done on digit sequences so *)
(* that the 28 digit default context is computed without overflow.         *)
(***************************************************************************)
EXTENDS Integers, Sequences, FiniteSets, TLC

(***************************************************************************)
(* Characters                                                              *)
(***************************************************************************)
LowerSeq ==
  <<"a","b","c","d","e","f","g","h","i","j","k","l","m",
    "n","o","p","q","r","s","t","u","v","w","x","y","z">>

UpperSeq ==
  <<"A","B","C","D","E","F","G","H","I","J","K","L","M",
    "N","O","P","Q","R","S","T","U","V","W","X","Y","Z">>

DigitSeq == <<"0","1","2","3","4","5","6","7","8","9">>

Range(f) == { f[i] : i \in DOMAIN f }

IsLetter(c) == c \in Range(LowerSeq) \cup Range(UpperSeq)

IsDigit(c) == c \in Range(DigitSeq)

\* str.lower() of one character
LowerChar(c) ==
  IF c \in Range(UpperSeq)
  THEN LowerSeq[CHOOSE i \in DOMAIN UpperSeq : UpperSeq[i] = c]
  ELSE c

\* str.lower()
Lower(s) == [ i \in DOMAIN s |-> LowerChar(s[i]) ]

DigitVal(c) == (CHOOSE i \in DOMAIN DigitSeq : DigitSeq[i] = c) - 1

DigitChar(d) == DigitSeq[d + 1]

\* the text made of n copies of the character c
Rep(c, n) == [ i \in 1..n |-> c ]

Max(a, b) == IF a >= b THEN a ELSE b

Min(a, b) == IF a <= b THEN a ELSE b

\* f[lo] \o ... \o f[hi] for a function f of sequences
RECURSIVE Flatten(_, _, _)
Flatten(f, lo, hi) ==
  IF lo > hi THEN << >>
  ELSE IF lo = hi THEN f[lo]
  ELSE LET mid == (lo + hi) \div 2
       IN  Flatten(f, lo, mid) \o Flatten(f, mid + 1, hi)

(***************************************************************************)
(* Digit sequences (unbounded naturals, most significant digit first).     *)
(* The carry loops are split in halves to keep the evaluation shallow; the *)
(* guard on the carry makes TLC evaluate the first half before the second. *)
(***************************************************************************)
StripZeros(ds) ==
  IF \A i \in DOMAIN ds : ds[i] = 0 THEN <<0>>
  ELSE SubSeq(ds, CHOOSE i \in DOMAIN ds :
                    ds[i] # 0 /\ \A j \in 1..(i - 1) : ds[j] = 0, Len(ds))

IsZeroDigits(ds) == \A i \in DOMAIN ds : ds[i] = 0

PadLeft(ds, n) == Rep(0, n - Len(ds)) \o ds

PadRight(ds, n) == ds \o Rep(0, n)

\* digits lo..hi of a + b with the carry coming in from the right
RECURSIVE AddBlock(_, _, _, _, _)
AddBlock(a, b, lo, hi, carry) ==
  IF lo = hi
  THEN LET s == a[lo] + b[lo] + carry IN [d |-> <<s % 10>>, c |-> s \div 10]
  ELSE LET mid == (lo + hi) \div 2
           right == AddBlock(a, b, mid + 1, hi, carry)
       IN  CASE right.c >= 0 ->
             LET left == AddBlock(a, b, lo, mid, right.c)
             IN  [d |-> left.d \o right.d, c |-> left.c]

\* a + b for digit sequences of the same length; result one digit longer
AddAligned(a, b) ==
  IF a = << >> THEN <<0>>
  ELSE LET Digits(r) == <<r.c>> \o r.d IN Digits(AddBlock(a, b, 1, Len(a), 0))

\* digits lo..hi of a - b with the borrow coming in from the right
RECURSIVE SubBlock(_, _, _, _, _)
SubBlock(a, b, lo, hi, borrow) ==
  IF lo = hi
  THEN LET s == a[lo] - b[lo] - borrow
       IN  IF s < 0 THEN [d |-> <<s + 10>>, c |-> 1] ELSE [d |-> <<s>>, c |-> 0]
  ELSE LET mid == (lo + hi) \div 2
           right == SubBlock(a, b, mid + 1, hi, borrow)
       IN  CASE right.c >= 0 ->
             LET left == SubBlock(a, b, lo, mid, right.c)
             IN  [d |-> left.d \o right.d, c |-> left.c]

\* a - b for digit sequences of the same length with a >= b
SubAligned(a, b) ==
  IF a = << >> THEN << >> ELSE SubBlock(a, b, 1, Len(a), 0).d

\* -1, 0, 1 as a < b, a = b, a > b for digit sequences of the same length
CmpAligned(a, b) ==
  IF \A i \in DOMAIN a : a[i] = b[i] THEN 0
  ELSE LET i == CHOOSE k \in DOMAIN a :
                  a[k] # b[k] /\ \A j \in 1..(k - 1) : a[j] = b[j]
       IN  IF a[i] < b[i] THEN -1 ELSE 1

\* the digits of a natural number
RECURSIVE NatDigits(_)
NatDigits(n) ==
  IF n < 10 THEN <<n>> ELSE NatDigits(n \div 10) \o <<n % 10>>

\* digits lo..hi of a * k with the carry coming in from the right
RECURSIVE MulBlock(_, _, _, _, _)
MulBlock(a, k, lo, hi, carry) ==
  IF lo = hi
  THEN LET s == a[lo] * k + carry IN [d |-> <<s % 10>>, c |-> s \div 10]
  ELSE LET mid == (lo + hi) \div 2
           right == MulBlock(a, k, mid + 1, hi, carry)
       IN  CASE right.c >= 0 ->
             LET left == MulBlock(a, k, lo, mid, right.c)
             IN  [d |-> left.d \o right.d, c |-> left.c]

\* a * k for a small natural k
MulSmall(a, k) ==
  LET Digits(r) == StripZeros(NatDigits(r.c) \o r.d)
  IN  Digits(MulBlock(a, k, 1, Len(a), 0))

\* quotient digits lo..hi of a by k with the remainder coming in from the left
RECURSIVE DivBlock(_, _, _, _, _)
DivBlock(a, k, lo, hi, rem) ==
  IF lo = hi
  THEN LET cur == rem * 10 + a[lo] IN [q |-> <<cur \div k>>, r |-> cur % k]
  ELSE LET mid == (lo + hi) \div 2
           left == DivBlock(a, k, lo, mid, rem)
       IN  CASE left.r >= 0 ->
             LET right == DivBlock(a, k, mid + 1, hi, left.r)
             IN  [q |-> left.q \o right.q, r |-> right.r]

\* long division of a by a small k > 0: [q |-> quotient digits, r |-> remainder]
DivSmall(a, k) ==
  LET Result(d) == [q |-> StripZeros(d.q), r |-> d.r]
  IN  Result(DivBlock(a, k, 1, Len(a), 0))

\* the value of a short digit sequence
RECURSIVE DigitsVal(_)
DigitsVal(ds) ==
  IF ds = << >> THEN 0
  ELSE DigitsVal(SubSeq(ds, 1, Len(ds) - 1)) * 10 + ds[Len(ds)]

(***************************************************************************)
(* decimal.Decimal under a context of precision prec, ROUND_HALF_EVEN.     *)
(* A Decimal is its sign (1 for negative), its coefficient digits and its  *)
(* exponent.                                                               *)
(***************************************************************************)
Dec(sign, int, exp) == [sign |-> sign, int |-> int, exp |-> exp]

IsZero(d) == IsZeroDigits(d.int)

\* first position of a character of cs in s, 0 when there is none
IndexOf(s, cs) ==
  IF \E i \in DOMAIN s : s[i] \in cs
  THEN CHOOSE i \in DOMAIN s : s[i] \in cs /\ \A j \in 1..(i - 1) : s[j] \notin cs
  ELSE 0

ToDigits(s) == [ i \in DOMAIN s |-> DigitVal(s[i]) ]

DigitChars(ds) == [ i \in DOMAIN ds |-> DigitChar(ds[i]) ]

\* int() of an optionally signed run of digits
SignedVal(s) ==
  IF s = << >> THEN 0
  ELSE (IF s[1] = "-" THEN -1 ELSE 1) *
       DigitsVal(ToDigits(IF s[1] \in {"-", "+"} THEN Tail(s) ELSE s))

\* decimal.Decimal(text): exact, whatever the context precision
DecimalOf(s) ==
  LET Coeff(sign, intpart, fracpart, expo) ==
        Dec(sign, StripZeros(ToDigits(intpart \o fracpart)), expo - Len(fracpart))
      Split(sign, mant, expo, dot) ==
        Coeff(sign,
              IF dot = 0 THEN mant ELSE SubSeq(mant, 1, dot - 1),
              IF dot = 0 THEN << >> ELSE SubSeq(mant, dot + 1, Len(mant)),
              expo)
      Mantissa(sign, mant, expo) == Split(sign, mant, expo, IndexOf(mant, {"."}))
      Exponent(sign, body, epos) ==
        Mantissa(sign,
                 IF epos = 0 THEN body ELSE SubSeq(body, 1, epos - 1),
                 IF epos = 0 THEN 0
                 ELSE SignedVal(SubSeq(body, epos + 1, Len(body))))
      Unsigned(sign, body) == Exponent(sign, body, IndexOf(body, {"E", "e"}))
  IN  Unsigned(IF s[1] = "-" THEN 1 ELSE 0,
               IF s[1] \in {"-", "+"} THEN Tail(s) ELSE s)

\* Decimal.__str__ (scientific notation when the exponent is positive or the
\* value has more than six leading zeros)
DecStr(d) ==
  LET Sci(e) ==
        IF e = 0 THEN << >>
        ELSE <<"E", IF e < 0 THEN "-" ELSE "+">> \o
             DigitChars(NatDigits(IF e < 0 THEN 0 - e ELSE e))
      Plain(chars, n, dotplace) ==
        IF dotplace <= 0 THEN <<"0", ".">> \o Rep("0", 0 - dotplace) \o chars
        ELSE IF dotplace >= n THEN chars \o Rep("0", dotplace - n)
        ELSE SubSeq(chars, 1, dotplace) \o <<".">> \o SubSeq(chars, dotplace + 1, n)
      Str(leftdigits, dotplace) ==
        (IF d.sign = 1 THEN <<"-">> ELSE << >>) \o
        Plain(DigitChars(d.int), Len(d.int), dotplace) \o Sci(leftdigits - dotplace)
      Place(leftdigits) ==
        Str(leftdigits, IF d.exp <= 0 /\ leftdigits > -6 THEN leftdigits ELSE 1)
  IN  Place(d.exp + Len(d.int))

\* Decimal._fix: round the coefficient to prec digits, half to even
Fix(d, prec) ==
  LET Up(kept, rest) ==
        \/ rest[1] > 5
        \/ /\ rest[1] = 5
           /\ (~IsZeroDigits(Tail(rest)) \/ kept[Len(kept)] % 2 = 1)
      Carry(inc, exp) ==
        IF Len(inc) > prec THEN Dec(d.sign, SubSeq(inc, 1, Len(inc) - 1), exp + 1)
        ELSE Dec(d.sign, inc, exp)
      Round(kept, rest, exp) ==
        Carry(IF Up(kept, rest)
              THEN StripZeros(AddAligned(kept, PadLeft(<<1>>, prec)))
              ELSE StripZeros(kept), exp)
  IN  IF Len(d.int) <= prec THEN d
      ELSE Round(SubSeq(d.int, 1, prec), SubSeq(d.int, prec + 1, Len(d.int)),
                 d.exp + Len(d.int) - prec)

\* Decimal.copy_negate
Neg(d) == Dec(1 - d.sign, d.int, d.exp)

\* Decimal.__add__
DecAdd(a, b, prec) ==
  LET Signed(x, y, c, e) ==
        Dec(IF a.sign = b.sign \/ c > 0 THEN a.sign ELSE IF c < 0 THEN b.sign ELSE 0,
            StripZeros(IF a.sign = b.sign THEN AddAligned(x, y)
                       ELSE SubAligned(IF c >= 0 THEN x ELSE y,
                                       IF c >= 0 THEN y ELSE x)),
            e)
      Sum(x, y, e) == Signed(x, y, CmpAligned(x, y), e)
      Align(ai, bi, n, e) == Sum(PadLeft(ai, n), PadLeft(bi, n), e)
      Widen(ai, bi, e) == Align(ai, bi, Max(Len(ai), Len(bi)), e)
      Scale(e) == Widen(PadRight(a.int, a.exp - e), PadRight(b.int, b.exp - e), e)
  IN  Fix(Scale(Min(a.exp, b.exp)), prec)

\* Decimal.__sub__
DecSub(a, b, prec) == DecAdd(a, Neg(b), prec)

\* Decimal.__mul__ by a Python int k
DecMulInt(a, k, prec) ==
  Fix(Dec(IF (k < 0) = (a.sign = 1) THEN 0 ELSE 1,
          MulSmall(a.int, IF k < 0 THEN 0 - k ELSE k), a.exp), prec)

\* drop trailing zeros of an exact quotient while exp < ideal
Reduce(coeff, exp, ideal) ==
  LET Drop(t) == [c |-> SubSeq(coeff, 1, Len(coeff) - t), e |-> exp + t]
      \* the numbers of digits that may be dropped
      Largest(drops) ==
        IF drops = {} THEN 0 ELSE CHOOSE x \in drops : \A y \in drops : y <= x
  IN  Drop(Largest({ t \in 0..(Len(coeff) - 1) :
                       /\ exp + t <= ideal
                       /\ \A j \in (Len(coeff) - t + 1)..Len(coeff) : coeff[j] = 0 }))

\* Decimal.__truediv__ by a small positive Python int k
DecDivInt(a, k, prec) ==
  LET Sticky(q) ==
        IF q[Len(q)] % 5 = 0
        THEN SubSeq(q, 1, Len(q) - 1) \o <<q[Len(q)] + 1>>
        ELSE q
      Exact(red) == Dec(a.sign, red.c, red.e)
      Quot(dv, lo, exp) ==
        IF dv.r # 0 \/ ~IsZeroDigits(lo) THEN Dec(a.sign, Sticky(dv.q), exp)
        ELSE Exact(Reduce(dv.q, exp, a.exp))
      Shift(shift) ==
        Quot(DivSmall(IF shift >= 0 THEN PadRight(a.int, shift)
                      ELSE SubSeq(a.int, 1, Len(a.int) + shift), k),
             IF shift >= 0 THEN << >>
             ELSE SubSeq(a.int, Len(a.int) + shift + 1, Len(a.int)),
             a.exp - shift)
  IN  Fix(IF IsZero(a) THEN Dec(a.sign, <<0>>, a.exp)
          ELSE Shift(Len(NatDigits(k)) - Len(a.int) + prec + 1), prec)

\* variant of DecAbs: the sign is kept, as in -1 * dec without abs()
NoAbs(a, prec) == Fix(a, prec)

\* Decimal.__abs__ (rounds to the context)
DecAbs(a, prec) == Fix(Dec(0, a.int, a.exp), prec)

\* Decimal.to_integral(rounding=ROUND_DOWN): no context rounding
ToIntegralDown(a) ==
  IF a.exp >= 0 THEN a
  ELSE IF Len(a.int) + a.exp <= 0 THEN Dec(a.sign, <<0>>, 0)
  ELSE Dec(a.sign, SubSeq(a.int, 1, Len(a.int) + a.exp), 0)

\* -1, 0, 1 as |d| <, =, > the natural n (n below 10000), exactly
MagCmp(d, n) ==
  LET Cmp(v, fracNonZero) ==
        IF v > n THEN 1 ELSE IF v < n THEN -1 ELSE IF fracNonZero THEN 1 ELSE 0
      Parts(left) ==
        Cmp(DigitsVal(IF d.exp >= 0 THEN PadRight(d.int, d.exp)
                      ELSE IF left <= 0 THEN <<0>>
                      ELSE SubSeq(d.int, 1, left)),
            d.exp < 0 /\ ~IsZeroDigits(IF left < 0 THEN d.int
                                       ELSE SubSeq(d.int, left + 1, Len(d.int))))
  IN  IF IsZero(d) THEN (IF n = 0 THEN 0 ELSE -1)
      ELSE IF Len(d.int) + d.exp > 4 THEN 1
      ELSE Parts(Len(d.int) + d.exp)

\* -1, 0, 1 as the Decimal d <, =, > the Python int k, exactly
CmpInt(d, k) ==
  IF IsZero(d) THEN (IF k > 0 THEN -1 ELSE IF k < 0 THEN 1 ELSE 0)
  ELSE IF d.sign = 1 /\ k >= 0 THEN -1
  ELSE IF d.sign = 0 /\ k <= 0 THEN 1
  ELSE (IF d.sign = 1 THEN -1 ELSE 1) * MagCmp(d, IF k < 0 THEN 0 - k ELSE k)

(***************************************************************************)
(* Program constants                                                       *)
(***************************************************************************)
\* the precision of Python's default decimal context
DefaultPrec == 28

\* decimal.getcontext().prec = 9
MainPrec == 9

\* confidence = 1000  # compass patterns are fairly strict
CompassConfidence == 1000

None == [none |-> TRUE]

PatternDefinition(url_regex, pattern_type, definition) ==
  [url_regex |-> url_regex, pattern_type |-> pattern_type,
   definition |-> definition, validators |-> definition]

\* the catalog; a definition is written as the list definition.split() yields
PATTERNS ==
  << PatternDefinition(<<"l","a","b","s",".","s","t","r","a","v","a",".","c","o","m">>, "degrees", <<"lon_dec", "lat_dec">>),
     PatternDefinition(<<"s","t","r","a","v","a",".","c","o","m">>, "degrees", <<"lon_dec", "lat_dec">>),
     PatternDefinition(<<".">>, "compass",
       <<"north_south", "lat_h", "lat_m", "lat_s", "east_west", "lon_h", "lon_m", "lon_s">>),
     PatternDefinition(<<".">>, "compass",
       <<"lat_h", "lat_m", "lat_s", "north_south", "lon_h", "lon_m", "lon_s", "east_west">>),
     PatternDefinition(<<".">>, "compass",
       <<"north_south", "lat_h", "lat_m_dec", "east_west", "lon_h", "lon_m_dec">>),
     PatternDefinition(<<".">>, "compass",
       <<"lat_h", "lat_m_dec", "north_south", "lon_h", "lon_m_dec", "east_west">>),
     PatternDefinition(<<".">>, "degrees", <<"lat_dec", "lon_dec">>),
     PatternDefinition(<<".">>, "degrees",
       <<"north_south", "lat_dec", "east_west", "lon_dec">>),
     PatternDefinition(<<".">>, "degrees",
       <<"lat_dec", "north_south", "lon_dec", "east_west">>) >>

REGEX_KNOWN_WORDS ==
  { <<"n">>,
    <<"s">>,
    <<"e">>,
    <<"w">>,
    <<"n","o","r","t","h">>,
    <<"s","o","u","t","h">>,
    <<"w","e","s","t">>,
    <<"e","a","s","t">>,
    <<"n","o","r","d">>,
    <<"s","u","r">>,
    <<"n","o","r","t","e">>,
    <<"s","u","l">>,
    <<"e","s","t">>,
    <<"o","u","e","s","t">>,
    <<"e","s","t","e">>,
    <<"o","e","s","t","e">> }

WORDS_N_NORTH_ELSE_SOUTH ==
  { <<"n">>,
    <<"s">>,
    <<"n","o","r","t","h">>,
    <<"s","o","u","t","h">>,
    <<"n","o","r","d">>,
    <<"s","u","r">>,
    <<"n","o","r","t","e">>,
    <<"s","u","l">> }

WORDS_E_EAST_ELSE_WEST ==
  { <<"e">>,
    <<"w">>,
    <<"e","a","s","t">>,
    <<"w","e","s","t">>,
    <<"e","s","t">>,
    <<"o","u","e","s","t">>,
    <<"e","s","t","e">>,
    <<"o","e","s","t","e">> }

(***************************************************************************)
(* urllib.parse.unquote and re.search                                      *)
(***************************************************************************)
HexSeq == <<"0","1","2","3","4","5","6","7","8","9","a","b","c","d","e","f">>

IsHex(c) == LowerChar(c) \in Range(HexSeq)

HexVal(c) == (CHOOSE i \in DOMAIN HexSeq : HexSeq[i] = LowerChar(c)) - 1

\* chr() of an ASCII code; every character that is neither a letter, a digit
\* nor one of the listed marks is written "?"
AsciiChar(v) ==
  IF v >= 48 /\ v <= 57 THEN DigitSeq[v - 47]
  ELSE IF v >= 65 /\ v <= 90 THEN UpperSeq[v - 64]
  ELSE IF v >= 97 /\ v <= 122 THEN LowerSeq[v - 96]
  ELSE IF v = 10 THEN "\n"
  ELSE IF v = 32 THEN " "
  ELSE IF v = 37 THEN "%"
  ELSE IF v = 44 THEN ","
  ELSE IF v = 45 THEN "-"
  ELSE IF v = 46 THEN "."
  ELSE IF v = 47 THEN "/"
  ELSE IF v = 61 THEN "="
  ELSE "?"

\* urllib.parse.unquote for escapes of ASCII bytes (escapes of bytes above
\* 0x7f are outside the input alphabet); a malformed escape is left as it is
IsEscape(s, i) ==
  /\ s[i] = "%"
  /\ i + 2 <= Len(s)
  /\ IsHex(s[i + 1]) /\ IsHex(s[i + 2])
  /\ HexVal(s[i + 1]) < 8

RECURSIVE UnquoteFrom(_, _)
UnquoteFrom(s, i) ==
  LET First(escapes) ==
        IF escapes = {} THEN 0 ELSE CHOOSE k \in escapes : \A m \in escapes : k <= m
      Decode(j) ==
        IF j = 0 THEN SubSeq(s, i, Len(s))
        ELSE SubSeq(s, i, j - 1)
             \o <<AsciiChar(HexVal(s[j + 1]) * 16 + HexVal(s[j + 2]))>>
             \o UnquoteFrom(s, j + 3)
  IN  Decode(First({ k \in i..Len(s) : IsEscape(s, k) }))

unquote(s) == UnquoteFrom(s, 1)

\* variant of matches_url: re.match, which looks at the start of url only
matches_url_anchored(pattern_def, url) ==
  /\ Len(url) >= Len(pattern_def.url_regex)
  /\ \A j \in DOMAIN pattern_def.url_regex :
       IF pattern_def.url_regex[j] = "." THEN url[j] # "\n"
       ELSE url[j] = pattern_def.url_regex[j]

\* re.search(url_regex, url) for a regex of literal characters and '.'
matches_url(pattern_def, url) ==
  \E i \in 1..(Len(url) - Len(pattern_def.url_regex) + 1) :
    \A j \in DOMAIN pattern_def.url_regex :
      IF pattern_def.url_regex[j] = "." THEN url[i + j - 1] # "\n"
      ELSE url[i + j - 1] = pattern_def.url_regex[j]

(***************************************************************************)
(* ParseLocation._break_apart                                              *)
(***************************************************************************)
\* the last index of the maximal run of digits beginning at i (i - 1 if none)
DigitRunEnd(s, i) ==
  IF \A j \in i..Len(s) : IsDigit(s[j]) THEN Max(Len(s), i - 1)
  ELSE (CHOOSE k \in i..Len(s) :
          ~IsDigit(s[k]) /\ \A m \in i..(k - 1) : IsDigit(s[m])) - 1

LetterRunEnd(s, i) ==
  IF \A j \in i..Len(s) : IsLetter(s[j]) THEN Max(Len(s), i - 1)
  ELSE (CHOOSE k \in i..Len(s) :
          ~IsLetter(s[k]) /\ \A m \in i..(k - 1) : IsLetter(s[m])) - 1

\* end of a match of -?[0-9]+\.?[0-9]* at i, 0 when it does not match there
NumberEnd(s, i) ==
  LET Frac(p, q) ==
        IF p > Len(s) \/ q < p THEN 0
        ELSE IF q + 1 <= Len(s) /\ s[q + 1] = "." THEN DigitRunEnd(s, q + 2)
        ELSE q
      Digits(p) == Frac(p, DigitRunEnd(s, p))
  IN  Digits(IF s[i] = "-" THEN i + 1 ELSE i)

StrElement(w) == [isstr |-> TRUE, s |-> w]

DecElement(d) == [isstr |-> FALSE, d |-> d]

\* a match of ([a-z]+)|(-?[0-9]+\.?[0-9]*) begins at i
MatchAt(s, i) == IsLetter(s[i]) \/ NumberEnd(s, i) # 0

\* re.finditer(r'([a-z]+)|(-?[0-9]+\.?[0-9]*)', s, re.I) from position i on:
\* the matched texts m.group(), one level for each match
RECURSIVE FindIterFrom(_, _)
FindIterFrom(s, i) ==
  LET First(starts) ==
        IF starts = {} THEN 0 ELSE CHOOSE k \in starts : \A m \in starts : k <= m
      Emit(b, j) == <<SubSeq(s, b, j)>> \o FindIterFrom(s, j + 1)
      Take(b) ==
        IF b = 0 THEN << >>
        ELSE Emit(b, IF IsLetter(s[b]) THEN LetterRunEnd(s, b) ELSE NumberEnd(s, b))
  IN  Take(First({ k \in i..Len(s) : MatchAt(s, k) }))

finditer(s) == FindIterFrom(s, 1)

\* re.match(REGEX_KNOWN_WORDS, element, re.I)
IsKnownWord(element) == Lower(element) \in REGEX_KNOWN_WORDS

\* re.match(r'^(-?[0-9]+\.?[0-9]*)$', element)
IsNumberText(element) ==
  element # << >> /\ ~IsLetter(element[1]) /\ NumberEnd(element, 1) = Len(element)

_break_apart(geo_string) ==
  LET Element(m) ==
        IF IsKnownWord(m) THEN <<StrElement(m)>>
        ELSE IF IsNumberText(m) THEN <<DecElement(DecimalOf(m))>>
        ELSE << >>
      Elements(ms) == Flatten([ k \in DOMAIN ms |-> Element(ms[k]) ], 1, Len(ms))
  IN  Elements(finditer(geo_string))

(***************************************************************************)
(* PatternMatcher: validators and match                                    *)
(***************************************************************************)
Fail == [ok |-> FALSE]

Ok(state) == [ok |-> TRUE, state |-> state]

Put(state, k, v) == (k :> v) @@ state

_assert_string(element) == element.isstr

_assert_decimal(element) == ~element.isstr

\* '.' in str(element)
_assert_integer(element) ==
  _assert_decimal(element) /\ "." \notin Range(DecStr(element.d))

north_south(element, state) ==
  IF _assert_string(element) /\ Lower(element.s) \in WORDS_N_NORTH_ELSE_SOUTH
  THEN Ok(Put(state, "ns", IF Lower(element.s)[1] = "n" THEN "n" ELSE "s"))
  ELSE Fail

east_west(element, state) ==
  IF _assert_string(element) /\ Lower(element.s) \in WORDS_E_EAST_ELSE_WEST
  THEN Ok(Put(state, "ew", IF Lower(element.s)[1] = "e" THEN "e" ELSE "w"))
  ELSE Fail

\* dec < lo or dec >= hi
OutOfRange(dec, lo, hi) == CmpInt(dec, lo) < 0 \/ CmpInt(dec, hi) >= 0

lat_h(element, state) ==
  IF _assert_integer(element) /\ ~OutOfRange(element.d, 0, 90)
  THEN Ok(Put(state, "lat_h", element.d)) ELSE Fail

lat_m(element, state) ==
  IF _assert_integer(element) /\ ~OutOfRange(element.d, 0, 60)
  THEN Ok(Put(state, "lat_m", element.d)) ELSE Fail

lat_s(element, state) ==
  IF _assert_decimal(element) /\ ~OutOfRange(element.d, 0, 60)
  THEN Ok(Put(state, "lat_s", element.d)) ELSE Fail

lat_m_dec(element, state, prec) ==
  IF _assert_decimal(element) /\ ~OutOfRange(element.d, 0, 60)
  THEN LET minutes == ToIntegralDown(element.d)
       IN  Ok(Put(Put(state, "lat_m", minutes),
                  "lat_s", DecMulInt(DecSub(element.d, minutes, prec), 60, prec)))
  ELSE Fail

lon_h(element, state) ==
  IF _assert_integer(element) /\ ~OutOfRange(element.d, 0, 180)
  THEN Ok(Put(state, "lon_h", element.d)) ELSE Fail

lon_m(element, state) ==
  IF _assert_integer(element) /\ ~OutOfRange(element.d, 0, 60)
  THEN Ok(Put(state, "lon_m", element.d)) ELSE Fail

lon_s(element, state) ==
  IF _assert_decimal(element) /\ ~OutOfRange(element.d, 0, 60)
  THEN Ok(Put(state, "lon_s", element.d)) ELSE Fail

lon_m_dec(element, state, prec) ==
  IF _assert_decimal(element) /\ ~OutOfRange(element.d, 0, 60)
  THEN LET minutes == ToIntegralDown(element.d)
       IN  Ok(Put(Put(state, "lon_m", minutes),
                  "lon_s", DecMulInt(DecSub(element.d, minutes, prec), 60, prec)))
  ELSE Fail

lat_dec(element, state) ==
  IF _assert_decimal(element) /\ ~OutOfRange(element.d, -90, 90)
  THEN Ok(Put(state, "lat_dec", element.d)) ELSE Fail

\* variant of lon_dec: the range is not checked
lon_dec_unchecked(element, state) ==
  IF _assert_decimal(element) THEN Ok(Put(state, "lon_dec", element.d)) ELSE Fail

\* dec <= -180 or dec >= 180
lon_dec(element, state) ==
  IF /\ _assert_decimal(element)
     /\ ~(CmpInt(element.d, -180) <= 0 \/ CmpInt(element.d, 180) >= 0)
  THEN Ok(Put(state, "lon_dec", element.d)) ELSE Fail

\* getattr(self, validator_name)(element, state)
Validator(validator_name, element, state, prec) ==
  CASE validator_name = "north_south" -> north_south(element, state)
    [] validator_name = "east_west"   -> east_west(element, state)
    [] validator_name = "lat_h"       -> lat_h(element, state)
    [] validator_name = "lat_m"       -> lat_m(element, state)
    [] validator_name = "lat_s"       -> lat_s(element, state)
    [] validator_name = "lat_m_dec"   -> lat_m_dec(element, state, prec)
    [] validator_name = "lon_h"       -> lon_h(element, state)
    [] validator_name = "lon_m"       -> lon_m(element, state)
    [] validator_name = "lon_s"       -> lon_s(element, state)
    [] validator_name = "lon_m_dec"   -> lon_m_dec(element, state, prec)
    [] validator_name = "lat_dec"     -> lat_dec(element, state)
    [] validator_name = "lon_dec"     -> lon_dec(element, state)

EmptyState == [k \in {} |-> 0]

\* the loop of PatternMatcher.match from validator i on (offsets count from 0)
RECURSIVE MatchFrom(_, _, _, _, _, _)
MatchFrom(pattern_def, elements, start_offset, i, state, prec) ==
  LET Continue(r) ==
        IF ~r.ok THEN Fail
        ELSE MatchFrom(pattern_def, elements, start_offset, i + 1, r.state, prec)
      Step(element_index) ==
        IF element_index >= Len(elements) THEN Fail
        ELSE Continue(Validator(pattern_def.validators[i],
                                elements[element_index + 1], state, prec))
  IN  IF i > Len(pattern_def.validators) THEN Ok(state)
      ELSE Step(start_offset + (i - 1))

match(pattern_def, elements, start_offset, prec) ==
  MatchFrom(pattern_def, elements, start_offset, 1, EmptyState, prec)

(***************************************************************************)
(* CoordinateBuilder                                                       *)
(***************************************************************************)
Coordinate(latitude, longitude, confidence, pattern_type, pattern_definition) ==
  [latitude |-> latitude, longitude |-> longitude, confidence |-> confidence,
   pattern_type |-> pattern_type, pattern_definition |-> pattern_definition]

\* variant of _get_decimal_places: every number counts one place
one_decimal_place(num) == 1

\* max(0, -exponent)
_get_decimal_places(num) == Max(0, 0 - num.exp)

build(pattern_def, values, prec) ==
  LET Make(latitude, longitude, confidence) ==
        Coordinate(DecStr(latitude), DecStr(longitude), confidence,
                   pattern_def.pattern_type, pattern_def.definition)
      \* h + (m / 60) + (s / 60 / 60), then *= -1
      Dms(h, m, s, negate) ==
        LET Signed(v) == IF negate THEN DecMulInt(v, -1, prec) ELSE v
        IN  Signed(DecAdd(DecAdd(h, DecDivInt(m, 60, prec), prec),
                          DecDivInt(DecDivInt(s, 60, prec), 60, prec), prec))
      \* -1 * abs(dec)
      Override(dec, negate) ==
        IF negate THEN DecMulInt(DecAbs(dec, prec), -1, prec) ELSE dec
      Degrees(lat_d, lon_d) ==
        Make(lat_d, lon_d, _get_decimal_places(lat_d) * _get_decimal_places(lon_d))
  IN  IF pattern_def.pattern_type = "compass"
      THEN Make(Dms(values["lat_h"], values["lat_m"], values["lat_s"],
                    values["ns"] = "s"),
                Dms(values["lon_h"], values["lon_m"], values["lon_s"],
                    values["ew"] = "w"),
                CompassConfidence)
      ELSE Degrees(Override(values["lat_dec"],
                            "ns" \in DOMAIN values /\ values["ns"] = "s"),
                   Override(values["lon_dec"],
                            "ew" \in DOMAIN values /\ values["ew"] = "w"))

(***************************************************************************)
(* ParseLocation                                                           *)
(***************************************************************************)
\* the loop over range(len(elements)) for one pattern, in discovery order
Offsets(pattern_def, elements, prec) ==
  LET Built(values) ==
        IF values.ok /\ DOMAIN values.state # {}
        THEN <<build(pattern_def, values.state, prec)>> ELSE << >>
  IN  Flatten([ start_offset \in 0..(Len(elements) - 1) |->
                Built(match(pattern_def, elements, start_offset, prec)) ],
              0, Len(elements) - 1)

\* the loop over PATTERNS: self.result before the sort
Candidates(geo_string, elements, prec) ==
  Flatten([ p \in DOMAIN PATTERNS |->
            IF matches_url(PATTERNS[p], geo_string)
            THEN Offsets(PATTERNS[p], elements, prec) ELSE << >> ],
          1, Len(PATTERNS))

\* variant of SortByConfidence: without reverse=True, lowest first
SortAscending(result) ==
  LET pos(i) == Cardinality({ j \in DOMAIN result :
                    \/ result[j].confidence < result[i].confidence
                    \/ result[j].confidence = result[i].confidence /\ j <= i })
  IN  [ k \in DOMAIN result |-> result[CHOOSE i \in DOMAIN result : pos(i) = k] ]

\* variant of SortByConfidence: sorted lowest first and then reversed, which
\* turns around the candidates of equal confidence
SortReversedTies(result) ==
  LET pos(i) == Cardinality({ j \in DOMAIN result :
                    \/ result[j].confidence > result[i].confidence
                    \/ result[j].confidence = result[i].confidence /\ j >= i })
  IN  [ k \in DOMAIN result |-> result[CHOOSE i \in DOMAIN result : pos(i) = k] ]

\* list.sort(key=lambda x: x.confidence, reverse=True): stable, highest first.
\* Element i goes behind every element of higher confidence and behind the
\* elements of its own confidence that precede it.
SortByConfidence(result) ==
  LET pos(i) == Cardinality({ j \in DOMAIN result :
                    \/ result[j].confidence > result[i].confidence
                    \/ result[j].confidence = result[i].confidence /\ j <= i })
  IN  [ k \in DOMAIN result |-> result[CHOOSE i \in DOMAIN result : pos(i) = k] ]

apply_patterns(geo_string, prec) ==
  SortByConfidence(Candidates(geo_string, _break_apart(geo_string), prec))

\* ParseLocation.__init__: the value of self.result
ParseLocation(geo_string, prec) == apply_patterns(unquote(geo_string), prec)

best_match(result) ==
  IF result = << >> THEN None
  ELSE IF result[1].confidence = 0 THEN None
  ELSE result[1]

\* variant of matches: the list whatever its first confidence
matches_unguarded(result) == result

matches(result) ==
  IF result = << >> THEN << >>
  ELSE IF result[1].confidence = 0 THEN << >>
  ELSE result

\* variant of find: the first candidate whatever its confidence
find_unchecked(geo_string, prec) ==
  LET First(loc) == IF loc = << >> THEN None ELSE loc[1]
  IN  First(ParseLocation(geo_string, prec))

find(geo_string, prec) ==
  LET Best(loc) == IF matches(loc) = << >> THEN None ELSE best_match(loc)
  IN  Best(ParseLocation(geo_string, prec))

(***************************************************************************)
(* Output                                                                  *)
(***************************************************************************)
OUTPUT ==
  << "{lat},{lon}",
     "https://wikimapia.org/#lat={lat}&lon={lon}&z=12&m=b",
     "https://hikebikemap.org/?zoom=12&lat={lat}&lon={lon}&layers=B0000FFFFF",
     "https://www.openstreetmap.org/#map=14/{lat}/{lon}",
     "https://www.panoramio.com/map/#lt={lat}&ln={lon}&z=3&k=2&a=1&tab=1&pl=all",
     "https://labs.strava.com/heatmap/#13/{lon}/{lat}/gray/both",
     "https://bing.com/maps/default.aspx?cp={lat}~{lon}&lvl=14",
     "https://here.com/?map={lat},{lon},16,normal",
     "https://www.google.com/maps/@{lat},{lon},16z",
     "https://wiki-map.com/map/?locale=en&lat={lat}&lng={lon}",
     "https://geohack.toolforge.org/geohack.php?params={lat};{lon}",
     "https://ngmdb.usgs.gov/topoview/viewer/#15/{lat}/{lon}",
     "https://www.flickr.com/search/?lat={lat}&lon={lon}&radius=0.50&has_geo=1&view_all=1&sort=interestingness-desc",
     "https://explore.osmaps.com/?lat={lat}&lon={lon}&zoom=13.0000&style=Standard&type=2d",
     "https://wikimap.wiki/?base=map&lat={lat}&lon={lon}&showAll=true&wiki=enwiki&zoom=15",
     "https://openinframap.org/#9/{lat}/{lon}",
     "https://www.openrailwaymap.org/?style=standard&lat={lat}&lon={lon}&zoom=13" >>

\* print_location: one line for each template, formatted with lat and lon
print_location(loc) ==
  [ t \in DOMAIN OUTPUT |->
      [template |-> OUTPUT[t], lat |-> loc.latitude, lon |-> loc.longitude] ]

\* print('confidence:{} '.format(result.confidence), end='')
print_confidence(r) == <<[confidence |-> r.confidence]>>

\* the lines main prints for one input with at least one match
Printed(loc, all) ==
  IF all
  THEN Flatten([ k \in DOMAIN matches(loc) |->
                 IF matches(loc)[k].confidence > 0
                 THEN print_confidence(matches(loc)[k])
                      \o print_location(matches(loc)[k])
                 ELSE << >> ],
               1, Len(matches(loc)))
  ELSE IF best_match(loc) # None THEN print_location(best_match(loc)) ELSE << >>

(***************************************************************************)
(* Command line: ARGS.parse_args() of argparse                             *)
(***************************************************************************)
\* argparse's _negative_number_matcher: ^-\d+$|^-\d*\.\d+$
negative_number(arg_string) ==
  /\ Len(arg_string) >= 2
  /\ arg_string[1] = "-"
  /\ LET Digits(lo, hi) == \A k \in lo..hi : IsDigit(arg_string[k])
         Fraction(dot) == dot < Len(arg_string) /\ Digits(2, dot - 1)
                          /\ Digits(dot + 1, Len(arg_string))
     IN  IF IndexOf(arg_string, {"."}) = 0
         THEN Digits(2, Len(arg_string))
         ELSE Fraction(IndexOf(arg_string, {"."}))

\* argparse's _parse_optional for an argument that is none of -h, --help,
\* -a, --all nor an abbreviation of them: TRUE when the argument is taken for
\* an option, which the parser does not know; FALSE when it is a positional
_parse_optional(arg_string) ==
  /\ arg_string # << >>
  /\ arg_string[1] = "-"
  /\ Len(arg_string) # 1
  /\ ~negative_number(arg_string)
  /\ " " \notin Range(arg_string)

\* parse_args fails: self.error(...) writes the usage text and exits with 2
parse_args_fails(args) == \E k \in DOMAIN args : _parse_optional(args[k])

(***************************************************************************)
(* Inputs                                                                  *)
(***************************************************************************)
\* the longest list of numbers in a generated input
MaxNums == 3

\* the longest list of command line inputs
MaxArgs == 2

\* the number of digits after the decimal point of the long numbers
LongFrac == 32

\* the texts of ss joined by the text sep
Join(ss, sep) ==
  Flatten([ k \in DOMAIN ss |-> IF k = 1 THEN ss[k] ELSE sep \o ss[k] ], 1, Len(ss))

\* 1.000...0 and 59.999...9 with LongFrac digits after the point
LongZeros(intpart) == intpart \o <<".">> \o Rep("0", LongFrac)

LongNines(intpart) == intpart \o <<".">> \o Rep("9", LongFrac)

\* numbers written with a decimal point, in and out of the ranges
PairNums ==
  {
    \* 1.5
    <<"1",".","5">>,
    \* -2.50
    <<"-","2",".","5","0">>,
    \* -90.0
    <<"-","9","0",".","0">>,
    \* 120.25
    <<"1","2","0",".","2","5">>,
    \* -179.9
    <<"-","1","7","9",".","9">>,
    \* -0.0
    <<"-","0",".","0">>,
    \* 0.0000001
    <<"0",".","0","0","0","0","0","0","1">>,
    \* 90.0
    <<"9","0",".","0">>,
    \* 180.0
    <<"1","8","0",".","0">>,
    \* -91.5
    <<"-","9","1",".","5">> }

\* what precedes the numbers of a URL
Hosts ==
  {
    \* (empty)
    <<>>,
    \* strava.com/
    <<"s","t","r","a","v","a",".","c","o","m","/">>,
    \* labs.strava.com/heatmap/
    <<"l","a","b","s",".","s","t","r","a","v","a",".","c","o","m","/","h","e","a","t","m","a","p","/">>,
    \* https://www.strava.com/
    <<"h","t","t","p","s",":","/","/","w","w","w",".","s","t","r","a","v","a",".","c","o","m","/">> }

\* [host]A,B
PairInputs == { h \o a \o <<",">> \o b : h \in Hosts, a \in PairNums, b \in PairNums }

ZoomLat ==
  {
    \* 1.5
    <<"1",".","5">>,
    \* -2.50
    <<"-","2",".","5","0">>,
    \* 37.6188888
    <<"3","7",".","6","1","8","8","8","8","8">> }

ZoomLon ==
  {
    \* 1.5
    <<"1",".","5">>,
    \* -2.50
    <<"-","2",".","5","0">>,
    \* 120.25
    <<"1","2","0",".","2","5">>,
    \* -122.375
    <<"-","1","2","2",".","3","7","5">> }

ZoomNums ==
  {
    \* 3.0000
    <<"3",".","0","0","0","0">>,
    \* 3.0
    <<"3",".","0">>,
    \* 12
    <<"1","2">>,
    \* 200.5
    <<"2","0","0",".","5">> }

PairSeps ==
  {
    \* ,
    <<",">>,
    \* , 
    <<","," ">> }

\* LAT,LON z=Z
ZoomText(lat, sep, lon, z) == lat \o sep \o lon \o <<" ","z","=">> \o z

ZoomInputs ==
  { ZoomText(a, s, b, z) : a \in ZoomLat, s \in PairSeps, b \in ZoomLon, z \in ZoomNums }

\* numbers of a list
NumItems ==
  {
    \* 1.5
    <<"1",".","5">>,
    \* -2.50
    <<"-","2",".","5","0">>,
    \* 3.0000
    <<"3",".","0","0","0","0">>,
    \* 7
    <<"7">>,
    \* 120.25
    <<"1","2","0",".","2","5">> }

\* n1,n2,...: up to MaxNums numbers
ListInputs ==
  { Join(ns, <<",">>) : ns \in UNION { [1..n -> NumItems] : n \in 0..MaxNums } }

\* what precedes a compass text
CompassPre ==
  { << >>,
    \* 1.5,-2.50,
    <<"1",".","5",",","-","2",".","5","0",",">>,
    LongZeros(<<"1">>) \o <<",">> \o LongZeros(<<"-","2">>) \o <<" ">> }

\* the latitude half of a compass text whose degrees are written as an integer
CompassLat ==
  {
    \* 37 29 49N
    <<"3","7"," ","2","9"," ","4","9","N">>,
    \* 37 37 8 S
    <<"3","7"," ","3","7"," ","8"," ","S">>,
    \* S17 33 08.352
    <<"S","1","7"," ","3","3"," ","0","8",".","3","5","2">>,
    \* N 38 43.91
    <<"N"," ","3","8"," ","4","3",".","9","1">>,
    \* 38,43.91S
    <<"3","8",",","4","3",".","9","1","S">> }
  \cup { <<"8","9"," ","5","9"," ">> \o LongNines(<<"5","9">>) \o <<" ","S">>,
         <<"N"," ","8","9"," ">> \o LongNines(<<"5","9">>) }

\* H M S <N|S> with the degrees H written with a decimal point
FractionalHourLat ==
  {
    \* 37.000 37 8 N
    <<"3","7",".","0","0","0"," ","3","7"," ","8"," ","N">>,
    \* 37.5 37 8 S
    <<"3","7",".","5"," ","3","7"," ","8"," ","S">>,
    \* 37. 37 8 N
    <<"3","7","."," ","3","7"," ","8"," ","N">>,
    \* 0.0000001 37 8 N
    <<"0",".","0","0","0","0","0","0","1"," ","3","7"," ","8"," ","N">> }

\* H2 M2 S2 <E|W>
HmsLon ==
  {
    \* , 122 14 25E
    <<","," ","1","2","2"," ","1","4"," ","2","5","E">>,
    \*  122 22 30 W
    <<" ","1","2","2"," ","2","2"," ","3","0"," ","W">> }
  \cup { <<" ","1","7","9"," ","5","9"," ">> \o LongNines(<<"5","9">>) \o <<" ","W">> }

\* the longitude half of a compass text
CompassLon ==
  HmsLon \cup
  {
    \*  W69 01 29.74
    <<" ","W","6","9"," ","0","1"," ","2","9",".","7","4">>,
    \*  W 123 59.37
    <<" ","W"," ","1","2","3"," ","5","9",".","3","7">>,
    \*  123,59.37W
    <<" ","1","2","3",",","5","9",".","3","7","W">> }

\* what follows a compass text
CompassPost ==
  {
    \* (empty)
    <<>>,
    \*  z=3.0000
    <<" ","z","=","3",".","0","0","0","0">> }

CompassInputs ==
  { a \o b \o c \o d :
      a \in CompassPre, b \in CompassLat, c \in CompassLon, d \in CompassPost }

\* compass texts whose latitude degrees carry a decimal point
FractionalHourInputs == { b \o c : b \in FractionalHourLat, c \in HmsLon }

DirNS ==
  {
    \* N
    <<"N">>,
    \* S
    <<"S">>,
    \* sur 
    <<"s","u","r"," ">> }

DirEW ==
  {
    \* E
    <<"E">>,
    \* W
    <<"W">>,
    \* oeste 
    <<"o","e","s","t","e"," ">> }

OverLat ==
  {
    \* 33.60389
    <<"3","3",".","6","0","3","8","9">>,
    \* -3.8805
    <<"-","3",".","8","8","0","5">>,
    \* 12.3456789012
    <<"1","2",".","3","4","5","6","7","8","9","0","1","2">> }

OverLon ==
  {
    \* 114.59935
    <<"1","1","4",".","5","9","9","3","5">>,
    \* -110.5
    <<"-","1","1","0",".","5">> }
  \cup { LongNines(<<"1","7","9">>) }

\* decimal degrees with direction words, before or behind the numbers
OverrideInputs ==
  { ns \o la \o <<" ">> \o ew \o lo :
      ns \in DirNS, la \in OverLat, ew \in DirEW, lo \in OverLon }
  \cup
  { la \o ns \o <<" ">> \o lo \o ew :
      ns \in DirNS, la \in OverLat, ew \in DirEW, lo \in OverLon }

\* inputs of the test suite and of the documentation
TestInputs ==
  {
    \* (empty)
    <<>>,
    \* nothing here
    <<"n","o","t","h","i","n","g"," ","h","e","r","e">>,
    \* 1 2 3 4 5 6 7
    <<"1"," ","2"," ","3"," ","4"," ","5"," ","6"," ","7">>,
    \* 37.6188888, -122.375 z=3.0000
    <<"3","7",".","6","1","8","8","8","8","8",","," ","-","1","2","2",".","3","7","5"," ","z","=","3",".","0","0","0","0">>,
    \* -91,0.0
    <<"-","9","1",",","0",".","0">>,
    \* 36.1003, -180.5
    <<"3","6",".","1","0","0","3",","," ","-","1","8","0",".","5">>,
    \* -37.5123, 0, 37 29 49N, 122 14 25E, -12.671, 41.014
    <<"-","3","7",".","5","1","2","3",","," ","0",","," ","3","7"," ","2","9"," ","4","9","N",","," ","1","2","2"," ","1","4"," ","2","5","E",","," ","-","1","2",".","6","7","1",","," ","4","1",".","0","1","4">>,
    \* 2 3 9 S 1 3 9 W
    <<"2"," ","3"," ","9"," ","S"," ","1"," ","3"," ","9"," ","W">>,
    \* 1.0 2.00 3.00 4.00 5.0 6.0
    <<"1",".","0"," ","2",".","0","0"," ","3",".","0","0"," ","4",".","0","0"," ","5",".","0"," ","6",".","0">>,
    \* /47/54m/-1.4003,57.007/z=18/t=3.00000
    <<"/","4","7","/","5","4","m","/","-","1",".","4","0","0","3",",","5","7",".","0","0","7","/","z","=","1","8","/","t","=","3",".","0","0","0","0","0">>,
    \* https://www.google.com/maps/@30.57,104.061,16z
    <<"h","t","t","p","s",":","/","/","w","w","w",".","g","o","o","g","l","e",".","c","o","m","/","m","a","p","s","/","@","3","0",".","5","7",",","1","0","4",".","0","6","1",",","1","6","z">>,
    \* labs.strava.com/heatmap/#13/104.060556/30.5708334/gray/both
    <<"l","a","b","s",".","s","t","r","a","v","a",".","c","o","m","/","h","e","a","t","m","a","p","/","#","1","3","/","1","0","4",".","0","6","0","5","5","6","/","3","0",".","5","7","0","8","3","3","4","/","g","r","a","y","/","b","o","t","h">>,
    \* 1%2E5,2%2e50
    <<"1","%","2","E","5",",","2","%","2","e","5","0">>,
    \* -0 0 0 S -0 0 0 W
    <<"-","0"," ","0"," ","0"," ","S"," ","-","0"," ","0"," ","0"," ","W">>,
    \* .5,.5
    <<".","5",",",".","5">> }
  \cup { LongZeros(<<"1">>) \o <<",">> \o LongZeros(<<"2">>) }

Inputs ==
  PairInputs \cup ZoomInputs \cup ListInputs \cup CompassInputs
  \cup FractionalHourInputs \cup OverrideInputs \cup TestInputs

\* the inputs given on the command line
MainInputs ==
  {
    \* 1.5,-2.50,7
    <<"1",".","5",",","-","2",".","5","0",",","7">>,
    \* nothing here
    <<"n","o","t","h","i","n","g"," ","h","e","r","e">>,
    \* 7,7
    <<"7",",","7">>,
    \* 2 3 9 S 1 3 9 W
    <<"2"," ","3"," ","9"," ","S"," ","1"," ","3"," ","9"," ","W">>,
    \* -2.50,1.5
    <<"-","2",".","5","0",",","1",".","5">>,
    \* -2.50, 1.5
    <<"-","2",".","5","0",","," ","1",".","5">> }

ArgLists == UNION { [1..n -> MainInputs] : n \in 0..MaxArgs }

(***************************************************************************)
(* State                                                                   *)
(***************************************************************************)
VARIABLES
  prec,        \* decimal.getcontext().prec
  pc,          \* where the caller is
  geo_string,  \* the argument of find() or ParseLocation()
  result,      \* self.result of the last ParseLocation built
  found,       \* what find() or best_match() returned
  listed,      \* what matches() returned
  argv,        \* the inputs of sys.argv, parsed_args.geo_string once parsed
  all,         \* parsed_args.all
  idx,         \* the input main's loop is at
  exit_code,   \* exit_code of main
  stdout,      \* the lines printed
  stderr       \* the lines written to sys.stderr

vars == <<prec, pc, geo_string, result, found, listed, argv, all, idx,
          exit_code, stdout, stderr>>

cliVars == <<argv, all, idx, exit_code, stdout, stderr>>

Init ==
  /\ prec = DefaultPrec
  /\ result = << >>
  /\ found = None
  /\ listed = << >>
  /\ idx = 0
  /\ exit_code = 0
  /\ stdout = << >>
  /\ stderr = << >>
  /\ \/ pc = "lib" /\ geo_string \in Inputs /\ argv = << >> /\ all = FALSE
     \/ pc = "cli" /\ geo_string = << >> /\ argv \in ArgLists /\ all \in BOOLEAN

\* TestFindNumbers.setUp: decimal.getcontext().prec = 9
SetUp ==
  /\ pc = "lib"
  /\ prec = DefaultPrec
  /\ prec' = MainPrec
  /\ UNCHANGED <<pc, geo_string, result, found, listed>>
  /\ UNCHANGED cliVars

\* find(geo_string)
Find ==
  /\ pc = "lib"
  /\ found' = find(geo_string, prec)
  /\ pc' = "found"
  /\ UNCHANGED <<prec, geo_string, result, listed>>
  /\ UNCHANGED cliVars

\* loc = ParseLocation(geo_string)
Construct ==
  /\ pc = "lib"
  /\ result' = ParseLocation(geo_string, prec)
  /\ pc' = "parsed"
  /\ UNCHANGED <<prec, geo_string, found, listed>>
  /\ UNCHANGED cliVars

\* loc.best_match()
BestMatch ==
  /\ pc = "parsed"
  /\ found' = best_match(result)
  /\ pc' = "best"
  /\ UNCHANGED <<prec, geo_string, result, listed>>
  /\ UNCHANGED cliVars

\* loc.matches()
Matches ==
  /\ pc = "parsed"
  /\ listed' = matches(result)
  /\ pc' = "matches"
  /\ UNCHANGED <<prec, geo_string, result, found>>
  /\ UNCHANGED cliVars

\* main with no input: print_help, ARGS.exit(2)
MainNoArgs ==
  /\ pc = "cli"
  /\ argv = << >>
  /\ exit_code' = 2
  /\ pc' = "exit"
  /\ UNCHANGED <<prec, geo_string, result, found, listed, argv, all, idx, stdout, stderr>>

\* main with an input argparse takes for an option: parsed_args =
\* ARGS.parse_args() writes the usage error and exits with 2
MainUsageError ==
  /\ pc = "cli"
  /\ argv # << >>
  /\ parse_args_fails(argv)
  /\ exit_code' = 2
  /\ stderr' = Append(stderr, "usage")
  /\ pc' = "exit"
  /\ UNCHANGED <<prec, geo_string, result, found, listed, argv, all, idx, stdout>>

\* main up to its loop: the precision is set, exit_code = 0
MainStart ==
  /\ pc = "cli"
  /\ argv # << >>
  /\ ~parse_args_fails(argv)
  /\ prec' = MainPrec
  /\ exit_code' = 0
  /\ idx' = 1
  /\ pc' = "loop"
  /\ UNCHANGED <<geo_string, result, found, listed, argv, all, stdout, stderr>>

\* one turn of main's loop
MainLoop ==
  /\ pc = "loop"
  /\ idx <= Len(argv)
  /\ \E loc \in {ParseLocation(argv[idx], prec)} :
       /\ geo_string' = argv[idx]
       /\ result' = loc
       /\ IF matches(loc) = << >>
          THEN /\ stderr' = Append(stderr, "No match")
               /\ exit_code' = 1
               /\ stdout' = stdout
          ELSE /\ stdout' = stdout \o Printed(loc, all)
               /\ UNCHANGED <<stderr, exit_code>>
  /\ idx' = idx + 1
  /\ UNCHANGED <<prec, pc, found, listed, argv, all>>

\* return exit_code
MainReturn ==
  /\ pc = "loop"
  /\ idx > Len(argv)
  /\ pc' = "exit"
  /\ UNCHANGED <<prec, geo_string, result, found, listed>>
  /\ UNCHANGED cliVars

Next ==
  \/ SetUp
  \/ Find
  \/ Construct
  \/ BestMatch
  \/ Matches
  \/ MainNoArgs
  \/ MainUsageError
  \/ MainStart
  \/ MainLoop
  \/ MainReturn

Spec == Init /\ [][Next]_vars

(***************************************************************************)
(* Properties                                                              *)
(***************************************************************************)
\* two texts denote the same Decimal: sign, coefficient and exponent
SameNumber(text, literal) == DecimalOf(text) = DecimalOf(literal)

\* the number written lies in [-90, 90)
ValidLat(literal) ==
  CmpInt(DecimalOf(literal), -90) >= 0 /\ CmpInt(DecimalOf(literal), 90) < 0

\* the number written lies in (-180, 180)
ValidLon(literal) ==
  CmpInt(DecimalOf(literal), -180) > 0 /\ CmpInt(DecimalOf(literal), 180) < 0

\* the number of digits written after the decimal point
FracDigits(literal) ==
  IF IndexOf(literal, {"."}) = 0 THEN 0 ELSE Len(literal) - IndexOf(literal, {"."})

InLatRange(text) ==
  CmpInt(DecimalOf(text), -90) >= 0 /\ CmpInt(DecimalOf(text), 90) <= 0

InLonRange(text) ==
  CmpInt(DecimalOf(text), -180) >= 0 /\ CmpInt(DecimalOf(text), 180) <= 0

\* the tokens of the input at hand
Tokens == _break_apart(unquote(geo_string))

\* the candidates of the input at hand in discovery order: pattern catalog
\* order first, then ascending start offset
Discovered == Candidates(unquote(geo_string), Tokens, prec)

HasCompass == \E i \in DOMAIN result : result[i].pattern_type = "compass"

\* C1 as stated: whenever the candidate list holds a compass candidate,
\* whatever the decimal-family candidates and their digits, best_match
\* returns a compass candidate.
C1_CompassAlwaysWins ==
  (pc = "best" /\ HasCompass) => (found # None /\ found.pattern_type = "compass")

\* C1 amended: a compass candidate is returned when every decimal-family
\* candidate has a confidence below 1000, that is when no pair of numbers has
\* digit counts after the decimal point whose product reaches 1000; and a
\* decimal-family candidate is returned when one has a confidence above 1000.
C1_CompassWinsBelow1000 ==
  (pc = "best" /\ HasCompass) =>
    /\ (\A i \in DOMAIN result :
          result[i].pattern_type = "degrees" => result[i].confidence < 1000)
       => (found # None /\ found.pattern_type = "compass")
    /\ (\E i \in DOMAIN result :
          result[i].pattern_type = "degrees" /\ result[i].confidence > 1000)
       => (found # None /\ found.pattern_type = "degrees")

\* a compass candidate wins against decimal-family candidates of positive
\* confidence
C1_Witness ==
  /\ pc = "best"
  /\ HasCompass
  /\ \E i \in DOMAIN result :
       result[i].pattern_type = "degrees" /\ result[i].confidence > 0
  /\ found # None
  /\ found.pattern_type = "compass"

\* C2 as stated: for "LAT,LON" with LAT in [-90,90), LON in (-180,180) and
\* digits after each decimal point, find returns a Coordinate whose latitude
\* is the text LAT and whose longitude is the text LON.
C2_RoundTrip ==
  pc = "found" =>
    \A a \in PairNums, b \in PairNums :
      (geo_string = a \o <<",">> \o b /\ ValidLat(a) /\ ValidLon(b))
      => (found # None /\ found.latitude = a /\ found.longitude = b)

\* a latitude written 0.0000001 comes back as 1E-7
C2_Witness ==
  /\ pc = "found"
  /\ geo_string = <<"0",".","0","0","0","0","0","0","1",",","1",".","5">>
  /\ found # None
  /\ found.latitude = <<"1","E","-","7">>
  /\ found.longitude = <<"1",".","5">>

\* C3: every candidate of the list has its latitude in [-90, 90] and its
\* longitude in [-180, 180], and a pair of numbers of which one is outside
\* its validator's range yields no candidate at all.
C3_RangeInvariant ==
  /\ \A i \in DOMAIN result :
       InLatRange(result[i].latitude) /\ InLonRange(result[i].longitude)
  /\ pc = "parsed" =>
       \A a \in PairNums, b \in PairNums :
         (geo_string = a \o <<",">> \o b /\ ~(ValidLat(a) /\ ValidLon(b)))
         => result = << >>

\* a longitude just inside the range is rounded onto the bound -180
C3_Witness ==
  /\ pc = "parsed"
  /\ \E i \in DOMAIN result : CmpInt(DecimalOf(result[i].longitude), -180) = 0

\* the second pair LON, Z is a candidate of higher confidence than LAT, LON
Overtakes(lat, lon, z) ==
  ValidLat(lon) /\ ValidLon(z) /\ FracDigits(z) > FracDigits(lat)

\* C4 as stated: for a valid pair LAT, LON followed by z=Z, whatever the
\* digits of Z, find returns LAT, LON.
C4_ZoomNeverWins ==
  pc = "found" =>
    \A a \in ZoomLat, s \in PairSeps, b \in ZoomLon, z \in ZoomNums :
      (geo_string = ZoomText(a, s, b, z) /\ ValidLat(a) /\ ValidLon(b))
      => /\ found # None
         /\ SameNumber(found.latitude, a)
         /\ SameNumber(found.longitude, b)

\* C4 amended: find returns LAT, LON unless LON is a valid latitude, Z a valid
\* longitude and Z has more digits after its decimal point than LAT; in that
\* case find returns LON, Z.
C4_ZoomWinsWithMoreDigits ==
  pc = "found" =>
    \A a \in ZoomLat, s \in PairSeps, b \in ZoomLon, z \in ZoomNums :
      (geo_string = ZoomText(a, s, b, z) /\ ValidLat(a) /\ ValidLon(b))
      => /\ found # None
         /\ SameNumber(found.latitude, IF Overtakes(a, b, z) THEN b ELSE a)
         /\ SameNumber(found.longitude, IF Overtakes(a, b, z) THEN z ELSE b)

\* the zoom parameter of the test suite leaves the pair in place
C4_Witness ==
  /\ pc = "found"
  /\ geo_string = <<"3","7",".","6","1","8","8","8","8","8",","," ","-","1","2","2",".","3","7","5"," ","z","=","3",".","0","0","0","0">>
  /\ found # None
  /\ found.latitude = <<"3","7",".","6","1","8","8","8","8","8">>
  /\ found.longitude = <<"-","1","2","2",".","3","7","5">>

\* the candidate list is empty or its highest confidence is 0
NoPositive(loc) == \A i \in DOMAIN loc : loc[i].confidence = 0

\* lists of numbers written without a decimal point
IntegerLists ==
  { Join(ns, <<",">>) : ns \in UNION { [1..n -> {<<"7">>}] : n \in 0..MaxNums } }

\* C5: find returns None exactly when the candidate list is empty or its
\* highest confidence is 0; the empty input, an input without recognised
\* tokens and inputs of integer-looking numbers without direction words
\* yield None.
C5_NoMatch ==
  pc = "found" =>
    /\ (found = None) <=> NoPositive(ParseLocation(geo_string, prec))
    /\ geo_string \in { << >>, <<"n","o","t","h","i","n","g"," ","h","e","r","e">>, <<"1"," ","2"," ","3"," ","4"," ","5"," ","6"," ","7">> } \cup IntegerLists
       => found = None

\* integer-looking numbers give candidates, all of confidence 0, and None
C5_Witness ==
  /\ pc = "found"
  /\ geo_string = <<"1"," ","2"," ","3"," ","4"," ","5"," ","6"," ","7">>
  /\ ParseLocation(geo_string, prec) # << >>
  /\ found = None

\* C6 as stated: a compass text H M S <N|S> H2 M2 S2 <E|W> whose latitude
\* degrees H are written with a decimal point yields no match.
C6_FractionalHourRejected ==
  (pc = "found" /\ geo_string \in FractionalHourInputs) => found = None

\* degrees written "37." pass as an integer and the compass pattern matches
C6_Witness ==
  /\ pc = "found"
  /\ geo_string = <<"3","7","."," ","3","7"," ","8"," ","N"," ","1","2","2"," ","2","2"," ","3","0"," ","W">>
  /\ found # None
  /\ found.pattern_type = "compass"
  /\ found.confidence = 1000

\* C7: every pattern and start offset that matches with the direction south
\* gives a candidate of the list whose latitude is <= 0, and with the
\* direction west one whose longitude is <= 0, in the compass family and in
\* the decimal family, also when the number is written with a leading '-'.
C7_DirectionFixesSign ==
  pc = "parsed" =>
    LET tokens == Tokens
        url == unquote(geo_string)
    IN  \A p \in DOMAIN PATTERNS, start_offset \in 0..(Len(tokens) - 1) :
          LET values == match(PATTERNS[p], tokens, start_offset, prec)
              coord == build(PATTERNS[p], values.state, prec)
          IN  (matches_url(PATTERNS[p], url) /\ values.ok)
              => /\ \E i \in DOMAIN result : result[i] = coord
                 /\ ("ns" \in DOMAIN values.state /\ values.state["ns"] = "s")
                    => CmpInt(DecimalOf(coord.latitude), 0) <= 0
                 /\ ("ew" \in DOMAIN values.state /\ values.state["ew"] = "w")
                    => CmpInt(DecimalOf(coord.longitude), 0) <= 0

\* numbers written with a leading '-' and followed by S and W stay negative
C7_Witness ==
  /\ pc = "parsed"
  /\ geo_string = <<"-","3",".","8","8","0","5","S"," ","-","1","1","0",".","5","W">>
  /\ \E i \in DOMAIN result :
       /\ result[i].latitude = <<"-","3",".","8","8","0","5">>
       /\ result[i].longitude = <<"-","1","1","0",".","5">>
       /\ result[i].pattern_definition =
            <<"lat_dec", "north_south", "lon_dec", "east_west">>

\* C8: for an input that contains strava.com and two numbers A then B written
\* with decimal points, A in (-180,180) and B in [-90,90), find returns the
\* latitude B and the longitude A, also when A is a valid latitude and B a
\* valid longitude.
C8_StravaReversed ==
  pc = "found" =>
    \A h \in Hosts \ {<< >>}, a \in PairNums, b \in PairNums :
      (geo_string = h \o a \o <<",">> \o b /\ ValidLon(a) /\ ValidLat(b))
      => /\ found # None
         /\ SameNumber(found.latitude, b)
         /\ SameNumber(found.longitude, a)

\* both orders are valid for 1.5 and -2.50 and the reversed one is returned
C8_Witness ==
  /\ pc = "found"
  /\ geo_string = <<"h","t","t","p","s",":","/","/","w","w","w",".","s","t","r","a","v","a",".","c","o","m","/","1",".","5",",","-","2",".","5","0">>
  /\ ValidLat(<<"1",".","5">>) /\ ValidLon(<<"-","2",".","5","0">>)
  /\ found # None
  /\ found.latitude = <<"-","2",".","5","0">>
  /\ found.longitude = <<"1",".","5">>

\* the candidates of a list that have the confidence c, in the list's order
WithConfidence(list, c) ==
  LET Test(x) == x.confidence = c IN SelectSeq(list, Test)

\* C9: the candidate list is sorted by confidence, highest first, and the
\* candidates of equal confidence keep their discovery order; best_match,
\* when not None, is the first element and has the maximum confidence.
C9_Ordering ==
  /\ pc \in {"parsed", "best"} =>
       LET discovered == Discovered
       IN  /\ \A i \in DOMAIN result, j \in DOMAIN result :
                i < j => result[i].confidence >= result[j].confidence
           /\ Len(result) = Len(discovered)
           /\ \A c \in { result[i].confidence : i \in DOMAIN result } :
                WithConfidence(result, c) = WithConfidence(discovered, c)
  /\ (pc = "best" /\ found # None) =>
       /\ found = result[1]
       /\ \A i \in DOMAIN result : result[i].confidence <= found.confidence

\* the sort moves candidates and leaves two different ones of equal
\* confidence at the head, in their discovery order
C9_Witness ==
  /\ pc = "best"
  /\ geo_string = <<"1",".","0"," ","2",".","0","0"," ","3",".","0","0"," ","4",".","0","0"," ","5",".","0"," ","6",".","0">>
  /\ result # Discovered
  /\ result[1].confidence = result[2].confidence
  /\ result[1].latitude = <<"2",".","0","0">>
  /\ result[2].latitude = <<"3",".","0","0">>
  /\ found = result[1]

\* C10 as stated: every Coordinate matches() returns has confidence > 0.
C10_MatchesAllPositive ==
  pc = "matches" => \A i \in DOMAIN listed : listed[i].confidence > 0

\* C10 amended: matches() returns nothing when the list is empty or its first
\* confidence is 0, and otherwise the whole sorted list, its candidates of
\* confidence 0 included; it is the loop of main under --all that prints
\* only the candidates of confidence > 0.
C10_MatchesWholeList ==
  /\ pc = "matches" =>
       /\ (result = << >> \/ NoPositive(result)) => listed = << >>
       /\ ~(result = << >> \/ NoPositive(result)) =>
            (listed = result /\ listed[1].confidence > 0)
  /\ \A k \in DOMAIN stdout :
       "confidence" \in DOMAIN stdout[k] => stdout[k].confidence > 0

\* matches() returns a candidate of confidence 0 behind a positive one
C10_Witness ==
  /\ pc = "matches"
  /\ listed # << >>
  /\ listed[1].confidence > 0
  /\ \E i \in DOMAIN listed : listed[i].confidence = 0


\* what main prints for the input argv[k] taken alone, at main's precision:
\* nothing without a match, the best match, or under --all every match of
\* confidence > 0 with its confidence
ExpectedOutput(k) ==
  LET positive(r) == r.confidence > 0
      Lines(r) == <<[confidence |-> r.confidence]>> \o print_location(r)
      Each(list) == Flatten([ i \in DOMAIN list |-> Lines(list[i]) ], 1, Len(list))
      Out(loc) == IF NoPositive(loc) THEN << >>
                  ELSE IF all THEN Each(SelectSeq(loc, positive))
                  ELSE print_location(loc[1])
  IN  Out(ParseLocation(argv[k], MainPrec))

\* the input argv[k] produces no match
ProducesNoMatch(k) == NoPositive(ParseLocation(argv[k], MainPrec))

\* C11 as stated: once main has ended on a command line with inputs, every
\* input has been processed in order and independently of the others (the
\* output is the outputs of the inputs one after the other, an input without
\* a match adding nothing), and the exit code is non-zero exactly when an
\* input produced no match.
C11_ExitCodeIffNoMatch ==
  (pc = "exit" /\ argv # << >>) =>
    /\ idx = Len(argv) + 1
    /\ stdout = Flatten([ k \in DOMAIN argv |-> ExpectedOutput(k) ], 1, Len(argv))
    /\ (exit_code # 0) <=> (\E k \in DOMAIN argv : ProducesNoMatch(k))

\* the input -2.50,1.5 is a coordinate find() matches, yet on the command
\* line it ends main with exit code 2 before any input is processed: the
\* input before it, which has a match, prints nothing
C11_Witness ==
  /\ pc = "exit"
  /\ argv = << <<"1",".","5",",","-","2",".","5","0",",","7">>, <<"-","2",".","5","0",",","1",".","5">> >>
  /\ \A k \in DOMAIN argv : ~ProducesNoMatch(k)
  /\ exit_code = 2
  /\ idx = 0
  /\ stdout = << >>

\* the texts of the tokens of the input at hand, as written: the matches of
\* the tokenizer that are direction words or numbers
TokenTexts ==
  LET Kept(m) == IsKnownWord(m) \/ IsNumberText(m)
  IN  SelectSeq(finditer(unquote(geo_string)), Kept)

\* the position of a validator in a pattern definition
ValidatorAt(pattern_def, validator_name) ==
  CHOOSE i \in DOMAIN pattern_def.validators :
    pattern_def.validators[i] = validator_name

\* C12 as stated: under the precision 9, every decimal-family candidate, of
\* the patterns with direction words too, has the confidence (digits written
\* after the decimal point of its latitude token) times (digits written
\* after the decimal point of its longitude token), a token without a
\* decimal point counting as 0.
C12_ConfidenceIsWrittenDigits ==
  (pc = "parsed" /\ prec = MainPrec) =>
    LET tokens == Tokens
        texts == TokenTexts
        url == unquote(geo_string)
    IN  \A p \in DOMAIN PATTERNS, start_offset \in 0..(Len(tokens) - 1) :
          LET values == match(PATTERNS[p], tokens, start_offset, prec)
              coord == build(PATTERNS[p], values.state, prec)
              lat == texts[start_offset + ValidatorAt(PATTERNS[p], "lat_dec")]
              lon == texts[start_offset + ValidatorAt(PATTERNS[p], "lon_dec")]
          IN  (/\ PATTERNS[p].pattern_type = "degrees"
               /\ matches_url(PATTERNS[p], url)
               /\ values.ok)
              => /\ \E i \in DOMAIN result : result[i] = coord
                 /\ coord.confidence = FracDigits(lat) * FracDigits(lon)

\* a latitude written with 10 digits after the decimal point and the
\* direction S is rounded to 9 significant digits by the override, and the
\* confidence counts the 7 digits left: 7 * 5 = 35 instead of 10 * 5 = 50
C12_Witness ==
  /\ pc = "parsed"
  /\ prec = MainPrec
  /\ geo_string = <<"S","1","2",".","3","4","5","6","7","8","9","0","1","2"," ","E","1","1","4",".","5","9","9","3","5">>
  /\ FracDigits(TokenTexts[2]) = 10
  /\ FracDigits(TokenTexts[4]) = 5
  /\ Len(result) = 1
  /\ result[1].latitude = <<"-","1","2",".","3","4","5","6","7","8","9">>
  /\ result[1].longitude = <<"1","1","4",".","5","9","9","3","5">>
  /\ result[1].confidence = 35
=============================================================================
